---- MODULE Spec2Model ----
(***************************************************************************)
(* A model of the sunbeam path tracer (src/src/trace.rs, material.rs,      *)
(* random.rs, main.rs).                                                    *)
(*                                                                         *)
(* Numbers.  The program computes in f32.  The model computes in exact     *)
(* rational arithmetic: a number is a pair <<n, d>> in lowest terms with   *)
(* d > 0, and <<1, 0>> stands for f32::INFINITY.  A square root is taken   *)
(* only of a rational that has a rational root; every action that needs a  *)
(* root is guarded so that its inputs are of that kind.  Rounding, NaN and *)
(* overflow of f32 are outside the model.                                  *)
(***************************************************************************)
EXTENDS Integers, Sequences, FiniteSets, TLC

VARIABLES
    sphereCall,   \* the last call of Sphere::probe: its arguments and result
    objects,      \* Scene.objects
    materials,    \* Scene.materials
    added,        \* history: the (object, material) pairs handed to Scene::add, in order
    sceneCall,    \* the last call of Scene::probe: its arguments and result
    sampleCall,   \* the last call of a sampling distribution: its draws and result
    scatterCall,  \* the last call of Material::scatter: its arguments, draws and result
    pc,           \* color_ray: "call", "probed", "return" or "done" ("idle": not called)
    cur_ray,      \* color_ray: incoming_ray of the innermost call
    cur_depth,    \* color_ray: depth of the innermost call
    stack,        \* color_ray: the attenuations of the calls waiting for their callee
    ret,          \* color_ray: the value being returned
    hist,         \* history of one primary ray: budget, probes, scatters, path, end
    buf,          \* Framebuffer.buf
    fi,           \* main: the row i of the render loop
    fj,           \* main: the column j of the render loop
    ss,           \* main: the supersamples taken for the pixel
    camCall,      \* the arguments of the last call of Camera::ray
    written       \* history: the pixels handed to Framebuffer::write, in order

sphereVars == <<sphereCall>>
sceneVars == <<objects, materials, added, sceneCall>>
sampleVars == <<sampleCall>>
scatterVars == <<scatterCall>>
traceVars == <<pc, cur_ray, cur_depth, stack, ret, hist>>
frameVars == <<buf, fi, fj, ss, camCall, written>>
vars == <<sphereVars, sceneVars, sampleVars, scatterVars, traceVars, frameVars>>

None == [none |-> TRUE]
\* The colour of a call that has not returned yet.
NoColor == <<>>
IsNone(x) == "none" \in DOMAIN x

-----------------------------------------------------------------------------
(* Exact rationals standing for f32 values.                                *)

\* The numbers and the vectors of the model.
Num == Int \X Int
Vec3 == Num \X Num \X Num

Abs(x) == IF x < 0 THEN -x ELSE x

RECURSIVE GCD(_, _)
GCD(a, b) == IF b = 0 THEN a ELSE GCD(b, a % b)

\* The rational n/d in lowest terms, d # 0.
Rat(n, d) ==
    LET g == GCD(Abs(n), Abs(d))
        s == IF d < 0 THEN -1 ELSE 1
    IN  <<(s * n) \div g, (s * d) \div g>>

R(n) == <<n, 1>>
Inf == <<1, 0>>
IsFinite(a) == a[2] # 0

\* (Integers, the common case, are added and multiplied as such.)
RAdd[a \in Num, b \in Num] ==
    IF a[2] = 1 /\ b[2] = 1 THEN <<a[1] + b[1], 1>>
    ELSE Rat(a[1] * b[2] + b[1] * a[2], a[2] * b[2])
RNeg[a \in Num] == <<-a[1], a[2]>>
RSub[a \in Num, b \in Num] == RAdd[a, RNeg[b]]
RMul[a \in Num, b \in Num] ==
    IF a[2] = 1 /\ b[2] = 1 THEN <<a[1] * b[1], 1>>
    ELSE Rat(a[1] * b[1], a[2] * b[2])
\* a / b for b # 0
RDiv[a \in Num, b \in Num] == IF b = <<1, 1>> THEN a ELSE Rat(a[1] * b[2], a[2] * b[1])
\* The comparisons also order Inf above every finite number.
RLt[a \in Num, b \in Num] == a[1] * b[2] < b[1] * a[2]
RLe[a \in Num, b \in Num] == a[1] * b[2] <= b[1] * a[2]
RMin[a \in Num, b \in Num] == IF RLt[b, a] THEN b ELSE a
RAbs[a \in Num] == <<Abs(a[1]), a[2]>>

IsSquare[n \in Nat] == \E s \in 0..n : s * s = n
ISqrt[n \in Nat] == CHOOSE s \in 0..n : s * s = n
\* a >= 0 has a rational square root
HasSqrt[a \in Num] == a[1] >= 0 /\ IsSquare[a[1]] /\ IsSquare[a[2]]
RSqrt[a \in Num] == <<ISqrt[a[1]], ISqrt[a[2]]>>

-----------------------------------------------------------------------------
(* ultraviolet::Vec3, as far as the program uses it.                       *)

V(x, y, z) == <<R(x), R(y), R(z)>>
VAdd[a \in Vec3, b \in Vec3] == <<RAdd[a[1], b[1]], RAdd[a[2], b[2]], RAdd[a[3], b[3]]>>
VSub[a \in Vec3, b \in Vec3] == <<RSub[a[1], b[1]], RSub[a[2], b[2]], RSub[a[3], b[3]]>>
VNeg[a \in Vec3] == <<RNeg[a[1]], RNeg[a[2]], RNeg[a[3]]>>
VScale[a \in Vec3, k \in Num] == <<RMul[a[1], k], RMul[a[2], k], RMul[a[3], k]>>
VDivS[a \in Vec3, k \in Num] == <<RDiv[a[1], k], RDiv[a[2], k], RDiv[a[3], k]>>
VMul[a \in Vec3, b \in Vec3] == <<RMul[a[1], b[1]], RMul[a[2], b[2]], RMul[a[3], b[3]]>>
dot[a \in Vec3, b \in Vec3] == RAdd[RAdd[RMul[a[1], b[1]], RMul[a[2], b[2]]], RMul[a[3], b[3]]]
mag_sq[a \in Vec3] == dot[a, a]
Normalizable[a \in Vec3] == HasSqrt[mag_sq[a]] /\ mag_sq[a] # R(0)
mag[a \in Vec3] == RSqrt[mag_sq[a]]
normalized[a \in Vec3] == VDivS[a, mag[a]]

-----------------------------------------------------------------------------
(* trace.rs: Ray, Hit, Sphere                                              *)

Ray(origin, dir) == [origin |-> origin, dir |-> dir]

Ray_at(ray, t) == VAdd[ray.origin, VScale[ray.dir, t]]

Hit(p, t, normal) == [p |-> p, t |-> t, normal |-> normal]

Hit_front_facing(hit, ray) == RLt[R(0), dot[hit.normal, ray.dir]]

Sphere(center, radius) == [center |-> center, radius |-> radius]

Rays == [origin : Vec3, dir : Vec3]
Hits == [p : Vec3, t : Num, normal : Vec3]
Spheres == [center : Vec3, radius : Num]

\* The discriminant of Sphere::probe's quadratic.
Sphere_discrim(sphere, ray) ==
    LET sep == VSub[ray.origin, sphere.center]
        a == mag_sq[ray.dir]
        hb == dot[sep, ray.dir]
        c == RSub[dot[sep, sep], RMul[sphere.radius, sphere.radius]]
    IN  RSub[RMul[hb, hb], RMul[a, c]]

\* The model can carry out Sphere::probe on these arguments.
Probeable(sphere, ray) ==
    LET discrim == Sphere_discrim(sphere, ray)
    IN  /\ mag_sq[ray.dir] # R(0)
        /\ RLt[discrim, R(0)] \/ HasSqrt[discrim]

\* The upper bound forgotten.
RootOutside_NoUpper(root, t_min, t_max) == RLt[root, t_min]

\* A root is rejected when it lies outside [t_min, t_max].
RootOutside(root, t_min, t_max) == RLt[root, t_min] \/ RLt[t_max, root]

Sphere_probe(sphere, ray, t_min, t_max) ==
    LET sep == VSub[ray.origin, sphere.center]
        a == mag_sq[ray.dir]
        hb == dot[sep, ray.dir]
        discrim == Sphere_discrim(sphere, ray)
    IN  IF RLt[discrim, R(0)] THEN None
        ELSE
        LET sqd == RSqrt[discrim]
            root1 == RDiv[RSub[RNeg[hb], sqd], a]
            root2 == RDiv[RAdd[RNeg[hb], sqd], a]
            root == IF RootOutside(root1, t_min, t_max) THEN root2 ELSE root1
            p == Ray_at(ray, root)
        IN  IF RootOutside(root1, t_min, t_max) /\ RootOutside(root2, t_min, t_max)
            THEN None
            ELSE Hit(p, root, VDivS[VSub[p, sphere.center], sphere.radius])

-----------------------------------------------------------------------------
(* material.rs: the three materials a scene entry can carry.               *)

Lambertian(albedo) == [kind |-> "Lambertian", albedo |-> albedo]
Metallic(albedo, roughness) ==
    [kind |-> "Metallic", albedo |-> albedo, roughness |-> roughness]
Dielectric(ior) == [kind |-> "Dielectric", ior |-> ior]

Materials ==
    [kind : {"Lambertian"}, albedo : Vec3]
        \cup [kind : {"Metallic"}, albedo : Vec3, roughness : Num]
        \cup [kind : {"Dielectric"}, ior : Num]

\* What Scene::probe returns: a hit and its material, or nothing.
Founds == [hit : Hits, material : Materials] \cup {None}

-----------------------------------------------------------------------------
(* trace.rs: Scene.  A scene is its two vectors, objects and materials.    *)

\* closest is left as it was.
Scene_closer_Keep(closest, hit) == closest

\* closest = hit.t
Scene_closer(closest, hit) == hit.t

\* The loop of Scene::probe from entry i on (the zip ends with the shorter
\* vector).
Scene_probe_from[objs \in Seq(Spheres), mats \in Seq(Materials), i \in Nat, r \in Rays, t_min \in Num, closest \in Num, current_hit \in Founds] ==
    IF i > Len(objs) \/ i > Len(mats) THEN current_hit
    ELSE LET hit == Sphere_probe(objs[i], r, t_min, closest)
         IN  IF ~IsNone(hit)
             THEN Scene_probe_from[objs, mats, i + 1, r, t_min, Scene_closer(closest, hit),
                                   [hit |-> hit, material |-> mats[i]]]
             ELSE Scene_probe_from[objs, mats, i + 1, r, t_min, closest, current_hit]

Scene_probe(objs, mats, r, t_min, t_max) ==
    Scene_probe_from[objs, mats, 1, r, t_min, t_max, None]

-----------------------------------------------------------------------------
(* random.rs: the sampling distributions.  A sample is a function of the    *)
(* draws it takes from the generator: g, three standard-normal draws, and   *)
(* u, one draw of Uniform::new(0., 1.).                                     *)

IsCube[n \in Nat] == \E s \in 0..n : s * s * s = n
ICbrt[n \in Nat] == CHOOSE s \in 0..n : s * s * s = n
HasCbrt[a \in Num] == a[1] >= 0 /\ IsCube[a[1]] /\ IsCube[a[2]]
cbrt[a \in Num] == <<ICbrt[a[1]], ICbrt[a[2]]>>

UniformInSphere_sample(u, g) ==
    LET p == normalized[g]
    IN  VDivS[p, cbrt[u]]

UniformOnSphere_sample(g) == normalized[g]

\* Normal draws are integers of -MaxGauss..MaxGauss, kept when the vector has
\* a rational, non-zero length.
MaxGauss == 2

GaussSet ==
    { g \in { V(x, y, z) : x \in -MaxGauss..MaxGauss, y \in -MaxGauss..MaxGauss,
                           z \in -MaxGauss..MaxGauss } : Normalizable[g] }

\* Uniform draws are the cubes c^3/d^3 with 0 < c < d <= MaxRoot, all in (0, 1).
MaxRoot == 3

UniformSet ==
    { Rat(q[1] * q[1] * q[1], q[2] * q[2] * q[2]) :
        q \in { r \in (1..MaxRoot) \X (2..MaxRoot) : r[1] < r[2] } }

-----------------------------------------------------------------------------
(* material.rs: the materials.  Each scatter is a function of its arguments *)
(* and of the draws it takes from the generator.                            *)

Scattered(ray, attenuation) ==
    [kind |-> "Scattered", ray |-> ray, attenuation |-> attenuation]
Absorbed == [kind |-> "Absorbed"]

\* Vec3::reflected of ultraviolet: v - 2 (v . n) n
reflected[v \in Vec3, normal \in Vec3] == VSub[v, VScale[normal, RMul[R(2), dot[v, normal]]]]

\* The k of Vec3::refracted of ultraviolet.
refracted_k[v \in Vec3, normal \in Vec3, eta \in Num] ==
    LET ndi == dot[normal, v]
    IN  RSub[R(1), RMul[RMul[eta, eta], RSub[R(1), RMul[ndi, ndi]]]]

\* Vec3::refracted of ultraviolet: the zero vector when k < 0, and else
\* eta v - (eta (n . v) + sqrt k) n
refracted[v \in Vec3, normal \in Vec3, eta \in Num] ==
    LET ndi == dot[normal, v]
        k == refracted_k[v, normal, eta]
    IN  IF RLt[k, R(0)] THEN V(0, 0, 0)
        ELSE VSub[VScale[v, eta], VScale[normal, RAdd[RMul[eta, ndi], RSqrt[k]]]]

\* a < 1/e and a <= 1/e for a >= 0 and an integer e > 0, without forming a * e
RLtInv[a \in Num, e \in Int] == a[1] <= (a[2] - 1) \div e
RLeInv[a \in Num, e \in Int] == a[1] <= a[2] \div e

\* 1 / 0.00000001, the bound of Lambertian::scatter
LambertianInvEps == 100000000
\* 1 / f32::EPSILON = 2^23
F32InvEpsilon == 8388608

component_max[v \in Vec3] == IF RLt[v[1], v[2]]
                    THEN (IF RLt[v[2], v[3]] THEN v[3] ELSE v[2])
                    ELSE (IF RLt[v[1], v[3]] THEN v[3] ELSE v[1])
VAbs[v \in Vec3] == <<RAbs[v[1]], RAbs[v[2]], RAbs[v[3]]>>

Lambertian_scatter(m, incoming_ray, hit, g) ==
    LET S == UniformOnSphere_sample(g)
        sum == VAdd[hit.normal, S]
        scatter_dir == IF RLtInv[mag[sum], LambertianInvEps] THEN hit.normal ELSE sum
    IN  Scattered(Ray(hit.p, scatter_dir), m.albedo)

\* The reflected direction of Metallic::scatter after its perturbation.
Metallic_refl(m, incoming_ray, hit, u, g) ==
    VAdd[reflected[normalized[incoming_ray.dir], hit.normal],
         VScale[UniformInSphere_sample(u, g), m.roughness]]

\* Absorbs at a dot product of 0 too.
Metallic_scatter_AbsorbAtZero(m, incoming_ray, hit, u, g) ==
    LET refl == Metallic_refl(m, incoming_ray, hit, u, g)
    IN  IF RLe[dot[refl, hit.normal], R(0)]
        THEN Absorbed
        ELSE Scattered(Ray(hit.p, refl), m.albedo)

Metallic_scatter(m, incoming_ray, hit, u, g) ==
    LET refl == Metallic_refl(m, incoming_ray, hit, u, g)
    IN  IF RLt[dot[refl, hit.normal], R(0)]
        THEN Absorbed
        ELSE Scattered(Ray(hit.p, refl), m.albedo)

RPow5[a \in Num] == RMul[RMul[RMul[a, a], RMul[a, a]], a]

reflectance[v \in Vec3, normal \in Vec3, eta \in Num] ==
    LET cosine == RMin[dot[VNeg[normal], v], R(1)]
        r0 == RDiv[RSub[R(1), eta], RAdd[R(1), eta]]
        r0sq == RMul[r0, r0]
    IN  RAdd[r0sq, RMul[RSub[R(1), r0sq], RPow5[RSub[R(1), cosine]]]]

\* hit.front(incoming_ray) of Dielectric::scatter is Hit::front_facing.
Dielectric_ratio(m, incoming_ray, hit) ==
    IF Hit_front_facing(hit, incoming_ray) THEN RDiv[R(1), m.ior] ELSE m.ior

Dielectric_n(incoming_ray, hit) ==
    IF Hit_front_facing(hit, incoming_ray) THEN hit.normal ELSE VNeg[hit.normal]

\* x is the draw of gen::<f32>(), in [0, 1).
Dielectric_scatter(m, incoming_ray, hit, x) ==
    LET attenuation == V(1, 1, 1)
        ratio == Dielectric_ratio(m, incoming_ray, hit)
        n == Dielectric_n(incoming_ray, hit)
        v == normalized[incoming_ray.dir]
        refr == refracted[v, n, ratio]
        scatter == IF \/ RLeInv[component_max[VAbs[refr]], F32InvEpsilon]
                      \/ RLe[x, reflectance[v, n, ratio]]
                   THEN reflected[v, hit.normal]
                   ELSE refr
    IN  Scattered(Ray(hit.p, scatter), attenuation)

\* Material::scatter, dispatched on the material; draws holds the draws the
\* material takes: g for Lambertian, u and g for Metallic, x for Dielectric.
Material_scatter(m, incoming_ray, hit, draws) ==
    CASE m.kind = "Lambertian" -> Lambertian_scatter(m, incoming_ray, hit, draws.g)
      [] m.kind = "Metallic" -> Metallic_scatter(m, incoming_ray, hit, draws.u, draws.g)
      [] m.kind = "Dielectric" -> Dielectric_scatter(m, incoming_ray, hit, draws.x)

\* The model can carry out the scatter: every root it takes is rational.
CanScatter(m, incoming_ray, hit, draws) ==
    CASE m.kind = "Lambertian" ->
            HasSqrt[mag_sq[VAdd[hit.normal, UniformOnSphere_sample(draws.g)]]]
      [] m.kind = "Metallic" -> Normalizable[incoming_ray.dir]
      [] m.kind = "Dielectric" ->
            /\ Normalizable[incoming_ray.dir]
            /\ LET k == refracted_k[normalized[incoming_ray.dir],
                                    Dielectric_n(incoming_ray, hit),
                                    Dielectric_ratio(m, incoming_ray, hit)]
               IN  RLt[k, R(0)] \/ HasSqrt[k]

DrawsFor(m) ==
    CASE m.kind = "Lambertian" -> { [g |-> g] : g \in GaussSet }
      [] m.kind = "Metallic" -> { [u |-> u, g |-> g] : u \in UniformSet, g \in GaussSet }
      [] m.kind = "Dielectric" -> { [x |-> x] : x \in { R(0), Rat(1, 2), Rat(31, 32) } }

-----------------------------------------------------------------------------
(* Sphere::probe applied to bounded arguments.                             *)

SphereSet ==
    { Sphere(V(0, 0, -3), R(1)),      \* on the axis: roots 2 and 4 for the unit ray
      Sphere(V(0, 0, -4), R(2)),      \* on the axis: roots 2 and 6
      Sphere(V(0, 3, -5), R(5)),      \* off the axis: roots 1 and 9
      Sphere(V(0, 1, -2), R(1)),      \* tangent to the axis: double root 2
      Sphere(V(0, 0, 0), R(1)),       \* contains the origin: roots -1 and 1
      Sphere(V(0, 4, -2), R(1)) }     \* misses the axis

RaySet ==
    { Ray(V(0, 0, 0), V(0, 0, -1)),
      Ray(V(0, 0, 0), V(0, 0, -2)),   \* direction not of unit length
      Ray(V(0, 0, 1), V(0, 0, -1)),
      Ray(V(0, 0, -3), V(0, 0, 1)) }

BoundSet == { R(0), Rat(1, 1000), R(1), R(2), R(3), R(4), Inf }

IntervalSet == { iv \in BoundSet \X BoundSet : IsFinite(iv[1]) /\ RLe[iv[1], iv[2]] }

\* The parts of the program a specification leaves alone.
SphereIdle == sphereCall = None
SceneIdle == objects = <<>> /\ materials = <<>> /\ added = <<>> /\ sceneCall = None
SampleIdle == sampleCall = None
ScatterIdle == scatterCall = None
TraceIdle ==
    /\ pc = "idle" /\ cur_ray = None /\ cur_depth = 0
    /\ stack = <<>> /\ ret = NoColor /\ hist = None
FrameIdle ==
    /\ buf = <<>> /\ fi = 0 /\ fj = 0 /\ ss = 0
    /\ camCall = None /\ written = <<>>

SphereInit ==
    /\ \E sphere \in SphereSet, ray \in RaySet, iv \in IntervalSet :
        /\ Probeable(sphere, ray)
        /\ sphereCall = [sphere |-> sphere, ray |-> ray,
                         t_min |-> iv[1], t_max |-> iv[2],
                         done |-> FALSE, hit |-> None]
    /\ SceneIdle /\ SampleIdle /\ ScatterIdle /\ TraceIdle /\ FrameIdle

SphereProbe ==
    /\ ~sphereCall.done
    /\ sphereCall' = [sphereCall EXCEPT
            !.done = TRUE,
            !.hit = Sphere_probe(sphereCall.sphere, sphereCall.ray,
                                 sphereCall.t_min, sphereCall.t_max)]
    /\ UNCHANGED <<sceneVars, sampleVars, scatterVars, traceVars, frameVars>>

SphereNext == SphereProbe

SphereSpec == SphereInit /\ [][SphereNext]_vars

\* C2 as amended: a hit of Sphere::probe has t_min <= t <= t_max and lies on
\* the ray at parameter t.
C2_HitInClosedInterval ==
    (sphereCall.done /\ ~IsNone(sphereCall.hit)) =>
        /\ RLe[sphereCall.t_min, sphereCall.hit.t]
        /\ RLe[sphereCall.hit.t, sphereCall.t_max]
        /\ sphereCall.hit.p =
              VAdd[sphereCall.ray.origin, VScale[sphereCall.ray.dir, sphereCall.hit.t]]

\* A hit above the lower bound of a finite interval, on a ray other than the
\* unit ray down the z axis.
C2_Witness ==
    /\ sphereCall.done
    /\ ~IsNone(sphereCall.hit)
    /\ IsFinite(sphereCall.t_max)
    /\ RLt[sphereCall.t_min, sphereCall.hit.t]
    /\ sphereCall.ray.dir # V(0, 0, -1)

\* C2 as stated: a hit of Sphere::probe has t_min < t <= t_max and lies on the
\* ray at parameter t.
C2_HitInHalfOpenInterval ==
    (sphereCall.done /\ ~IsNone(sphereCall.hit)) =>
        /\ RLt[sphereCall.t_min, sphereCall.hit.t]
        /\ RLe[sphereCall.hit.t, sphereCall.t_max]
        /\ sphereCall.hit.p =
              VAdd[sphereCall.ray.origin, VScale[sphereCall.ray.dir, sphereCall.hit.t]]

-----------------------------------------------------------------------------
(* A scene built by Scene::add and then probed.  The scene is read-only    *)
(* once rendering has begun, so nothing is added after the probe.          *)

MaxObjects == 3

SceneSphereSet ==
    { Sphere(V(0, 0, -3), R(1)),
      Sphere(V(0, 0, -4), R(2)),
      Sphere(V(0, 3, -5), R(5)),
      Sphere(V(0, 0, 0), R(1)),
      Sphere(V(0, 4, -2), R(1)) }

SceneMaterialSet ==
    { Lambertian(<<Rat(3, 10), Rat(2, 10), Rat(8, 10)>>), Dielectric(Rat(3, 2)) }

SceneRaySet == { Ray(V(0, 0, 0), V(0, 0, -1)), Ray(V(0, 0, 0), V(0, 0, -2)) }

SceneIntervalSet ==
    { <<R(0), Inf>>, <<Rat(1, 1000), Inf>>, <<R(0), R(1)>>, <<R(3), R(4)>> }

SceneInit ==
    /\ objects = <<>>
    /\ materials = <<>>
    /\ added = <<>>
    /\ \E r \in SceneRaySet, iv \in SceneIntervalSet :
        sceneCall = [ray |-> r, t_min |-> iv[1], t_max |-> iv[2],
                     done |-> FALSE, result |-> None]
    /\ SphereIdle /\ SampleIdle /\ ScatterIdle /\ TraceIdle /\ FrameIdle

Scene_add(object, material) ==
    /\ objects' = Append(objects, object)
    /\ materials' = Append(materials, material)

SceneAdd ==
    /\ ~sceneCall.done
    /\ Len(objects) < MaxObjects
    /\ \E object \in SceneSphereSet, material \in SceneMaterialSet :
        /\ Scene_add(object, material)
        /\ added' = Append(added, <<object, material>>)
    /\ UNCHANGED <<sceneCall, sphereVars, sampleVars, scatterVars, traceVars, frameVars>>

SceneProbe ==
    /\ ~sceneCall.done
    /\ \A i \in 1..Len(objects) : Probeable(objects[i], sceneCall.ray)
    /\ sceneCall' = [sceneCall EXCEPT
            !.done = TRUE,
            !.result = Scene_probe(objects, materials, sceneCall.ray,
                                   sceneCall.t_min, sceneCall.t_max)]
    /\ UNCHANGED <<objects, materials, added,
                   sphereVars, sampleVars, scatterVars, traceVars, frameVars>>

SceneNext == SceneAdd \/ SceneProbe

SceneSpec == SceneInit /\ [][SceneNext]_vars

\* What each entry added reports for the call's ray and whole interval.
EntryHits ==
    [i \in 1..Len(added) |->
        Sphere_probe(added[i][1], sceneCall.ray, sceneCall.t_min, sceneCall.t_max)]

\* C1: Scene::probe returns none exactly when no entry reports a hit in the
\* interval; otherwise it returns the hit of an entry together with the
\* material added with that entry, and no entry reports a smaller t.
C1_SceneProbeNearest ==
    sceneCall.done =>
        LET hits == EntryHits
            hitting == { i \in DOMAIN hits : ~IsNone(hits[i]) }
        IN  /\ IsNone(sceneCall.result) <=> hitting = {}
            /\ hitting # {} =>
                  /\ \E i \in hitting :
                        /\ sceneCall.result.hit = hits[i]
                        /\ sceneCall.result.material = added[i][2]
                  /\ \A j \in hitting : RLe[sceneCall.result.hit.t, hits[j].t]

\* Three entries hit, the nearest neither first nor last, and an entry added
\* with the other material hits farther away.
C1_Witness ==
    /\ sceneCall.done
    /\ Len(added) = 3
    /\ LET hits == EntryHits
       IN  /\ \A i \in 1..3 : ~IsNone(hits[i])
           /\ RLt[hits[2].t, hits[1].t]
           /\ RLt[hits[2].t, hits[3].t]
    /\ added[3][2] # added[2][2]
    /\ sceneCall.result.material = added[2][2]

-----------------------------------------------------------------------------
(* main.rs: color_ray, one primary ray traced through the test scene.      *)
(* A call of color_ray runs up to its recursive call or its return; the    *)
(* stack holds the callers waiting for color_ray(&ray, scene, depth - 1).  *)
(* The spheres and the rays of this specification lie on the y axis, and   *)
(* the normal draws are taken along it, so that every root is rational.    *)

\* The bounce budget of the primary ray ranges over 0..MaxDepth (main passes 40).
MaxDepth == 3

Color_zero == V(0, 0, 0)
Color_one == V(1, 1, 1)

\* The lower bound 0.001 of color_ray's probe.
ProbeTMin == Rat(1, 1000)

\* The sky gradient of a ray that hits nothing.
Sky(dir) ==
    LET t == RMul[Rat(1, 2), RAdd[normalized[dir][2], R(1)]]
    IN  VAdd[VScale[Color_one, RSub[R(1), t]],
             VScale[<<Rat(1, 2), Rat(7, 10), R(1)>>, t]]

\* A scene of four spheres on the y axis, with materials of the three kinds
\* construct_test_scene uses: a small diffuse sphere inside a large one, a
\* glass sphere below them and a rough metal sphere below that.
TestSceneEntries ==
    << <<Sphere(V(0, 5, 0), R(1)), Lambertian(<<Rat(3, 10), Rat(2, 10), Rat(8, 10)>>)>>,
       <<Sphere(V(0, 6, 0), R(3)), Lambertian(<<Rat(8, 10), Rat(8, 10), R(0)>>)>>,
       <<Sphere(V(0, 0, 0), R(1)), Dielectric(Rat(3, 2))>>,
       <<Sphere(V(0, -4, 0), R(1)), Metallic(<<Rat(8, 10), Rat(6, 10), Rat(2, 10)>>, Rat(1, 2))>> >>

PrimaryRaySet ==
    { Ray(V(0, 5, 0), V(0, 1, 0)),      \* from inside the two diffuse spheres
      Ray(V(0, 11, 0), V(0, -2, 0)),    \* down onto the large diffuse sphere
      Ray(V(0, 2, 0), V(0, -1, 0)),     \* down onto the glass sphere
      Ray(V(0, -2, 0), V(0, -1, 0)),    \* down onto the metal sphere
      Ray(V(0, -6, 0), V(0, 1, 0)),     \* up onto the metal sphere
      Ray(V(0, 12, 0), V(0, 3, 0)),     \* up into the sky
      Ray(V(0, -6, 0), V(0, -1, 0)) }   \* down into the sky

OnYAxis(v) == v[1] = R(0) /\ v[3] = R(0)

TraceDrawsFor(m) ==
    { d \in DrawsFor(m) : m.kind \in {"Lambertian", "Metallic"} => OnYAxis(d.g) }

TestObjects == [i \in 1..Len(TestSceneEntries) |-> TestSceneEntries[i][1]]
TestMaterials == [i \in 1..Len(TestSceneEntries) |-> TestSceneEntries[i][2]]

\* The budget handed on as it is.
Budget_of_call_Same(depth) == depth

\* The budget of the recursive call: color_ray(&ray, scene, depth - 1)
Budget_of_call(depth) == depth - 1

\* The attenuation left out.
Attenuated_Not(attenuation, color) == color

\* attenuation * color_ray(&ray, scene, depth - 1)
Attenuated(attenuation, color) == VMul[attenuation, color]

TraceInit ==
    /\ objects = TestObjects
    /\ materials = TestMaterials
    /\ added = TestSceneEntries
    /\ sceneCall = None
    /\ pc = "call"
    /\ cur_ray \in PrimaryRaySet
    /\ cur_depth \in 0..MaxDepth
    /\ stack = <<>>
    /\ ret = NoColor
    /\ hist = [n |-> cur_depth, probes |-> 0, scatters |-> 0,
               path |-> <<>>, terminal |-> None]
    /\ SphereIdle /\ SampleIdle /\ ScatterIdle /\ FrameIdle

TraceOthersUnchanged ==
    UNCHANGED <<sphereVars, objects, materials, added, sampleVars, scatterVars, frameVars>>

\* if depth <= 0 { return Color::zero(); }
ColorRayOutOfBudget ==
    /\ pc = "call"
    /\ cur_depth <= 0
    /\ ret' = Color_zero
    /\ pc' = "return"
    /\ hist' = [hist EXCEPT !.terminal = [kind |-> "budget"]]
    /\ UNCHANGED <<cur_ray, cur_depth, stack, sceneCall>>
    /\ TraceOthersUnchanged

\* scene.probe(incoming_ray, 0.001, f32::INFINITY)
ColorRayProbe ==
    /\ pc = "call"
    /\ cur_depth > 0
    /\ sceneCall' = [ray |-> cur_ray, t_min |-> ProbeTMin, t_max |-> Inf, done |-> TRUE,
                     result |-> Scene_probe(objects, materials, cur_ray, ProbeTMin, Inf)]
    /\ pc' = "probed"
    /\ hist' = [hist EXCEPT !.probes = @ + 1]
    /\ UNCHANGED <<cur_ray, cur_depth, stack, ret>>
    /\ TraceOthersUnchanged

\* The probe found nothing: the sky gradient is returned.
ColorRayMiss ==
    /\ pc = "probed"
    /\ IsNone(sceneCall.result)
    /\ ret' = Sky(cur_ray.dir)
    /\ pc' = "return"
    /\ hist' = [hist EXCEPT !.terminal = [kind |-> "sky", dir |-> cur_ray.dir]]
    /\ UNCHANGED <<cur_ray, cur_depth, stack, sceneCall>>
    /\ TraceOthersUnchanged

\* The probe found a hit and the material absorbs: black is returned.
ColorRayAbsorbed ==
    /\ pc = "probed"
    /\ ~IsNone(sceneCall.result)
    /\ \E draws \in TraceDrawsFor(sceneCall.result.material) :
        /\ CanScatter(sceneCall.result.material, cur_ray, sceneCall.result.hit, draws)
        /\ Material_scatter(sceneCall.result.material, cur_ray, sceneCall.result.hit, draws)
               = Absorbed
    /\ ret' = Color_zero
    /\ pc' = "return"
    /\ hist' = [hist EXCEPT !.scatters = @ + 1, !.terminal = [kind |-> "absorbed"]]
    /\ UNCHANGED <<cur_ray, cur_depth, stack, sceneCall>>
    /\ TraceOthersUnchanged

\* The caller's frame pushed by a recursive call.
PushFrame(attenuation) ==
    Append(stack, [attenuation |-> attenuation, ray |-> cur_ray, depth |-> cur_depth])

\* The probe found a hit and the material scatters: color_ray calls itself on
\* the scattered ray with depth - 1, and will multiply by the attenuation.
ColorRayScattered ==
    /\ pc = "probed"
    /\ ~IsNone(sceneCall.result)
    /\ \E draws \in { d \in TraceDrawsFor(sceneCall.result.material) :
                        CanScatter(sceneCall.result.material, cur_ray, sceneCall.result.hit, d) } :
       \E sc \in { Material_scatter(sceneCall.result.material, cur_ray,
                                     sceneCall.result.hit, draws) } :
        /\ sc # Absorbed
        /\ sc.ray.dir # V(0, 0, 0)
        /\ stack' = PushFrame(sc.attenuation)
        /\ cur_ray' = sc.ray
        /\ hist' = [hist EXCEPT !.scatters = @ + 1, !.path = Append(@, sc.attenuation)]
    /\ cur_depth' = Budget_of_call(cur_depth)
    /\ pc' = "call"
    /\ UNCHANGED <<ret, sceneCall>>
    /\ TraceOthersUnchanged

\* A recursive call has returned: return attenuation * color_ray(...)
ColorRayReturn ==
    /\ pc = "return"
    /\ stack # <<>>
    /\ LET top == stack[Len(stack)]
       IN  /\ ret' = Attenuated(top.attenuation, ret)
           /\ cur_ray' = top.ray
           /\ cur_depth' = top.depth
    /\ stack' = SubSeq(stack, 1, Len(stack) - 1)
    /\ UNCHANGED <<pc, hist, sceneCall>>
    /\ TraceOthersUnchanged

\* The call for the primary ray has returned: ret is the sample's colour.
ColorRayDone ==
    /\ pc = "return"
    /\ stack = <<>>
    /\ pc' = "done"
    /\ UNCHANGED <<cur_ray, cur_depth, stack, ret, hist, sceneCall>>
    /\ TraceOthersUnchanged

TraceNext ==
    \/ ColorRayOutOfBudget
    \/ ColorRayProbe
    \/ ColorRayMiss
    \/ ColorRayAbsorbed
    \/ ColorRayScattered
    \/ ColorRayReturn
    \/ ColorRayDone

TraceSpec == TraceInit /\ [][TraceNext]_vars

\* color_ray is a plain function: once called it runs to its return.
FairTraceSpec == TraceSpec /\ WF_vars(TraceNext)

RECURSIVE Product(_)
Product(attenuations) ==
    IF attenuations = <<>> THEN Color_one
    ELSE VMul[attenuations[1], Product(Tail(attenuations))]

TerminalColor ==
    IF hist.terminal.kind = "sky" THEN Sky(hist.terminal.dir) ELSE Color_zero

\* C3: the colour color_ray returns is the product of the attenuations of the
\* scatter events of the path times the terminal colour: the sky gradient
\* after a miss, black after an absorption or with the budget used up; with a
\* budget of 0 it is black.
C3_ColorIsAttenuatedTerminal ==
    pc = "done" =>
        /\ ret = VMul[Product(hist.path), TerminalColor]
        /\ hist.terminal.kind \in {"absorbed", "budget"} => ret = Color_zero
        /\ hist.n = 0 => ret = Color_zero

\* A path of two scatter events that ends in the sky.
C3_Witness ==
    /\ pc = "done"
    /\ Len(hist.path) = 2
    /\ hist.terminal.kind = "sky"
    /\ ret # Color_zero

\* The budget decreases by 1 with every recursive call, and the recursion, the
\* probes and the scatter calls of one primary ray are each at most n.
BudgetBounds ==
    pc # "idle" =>
        /\ cur_depth = hist.n - Len(stack)
        /\ Len(stack) <= hist.n
        /\ hist.probes <= hist.n
        /\ hist.scatters <= hist.n

\* C9: color_ray terminates for every budget n, the budget decreases by 1 on
\* each recursive call, and the recursion depth, the scene probes and the
\* scatter calls are each at most n.
C9_TerminatesWithinBudget == []BudgetBounds /\ <>(pc = "done")

\* A primary ray that used its whole budget: n recursive calls, n probes and
\* n scatter calls, and the innermost call out of budget.
C9_Witness ==
    /\ pc = "return"
    /\ hist.n = MaxDepth
    /\ Len(stack) = hist.n
    /\ hist.probes = hist.n
    /\ hist.scatters = hist.n
    /\ cur_depth = 0

-----------------------------------------------------------------------------
(* The sampling distributions applied to bounded draws.                    *)

SampleInit ==
    /\ \E dist \in {"UniformInSphere", "UniformOnSphere"}, u \in UniformSet, g \in GaussSet :
        sampleCall = [dist |-> dist, u |-> u, g |-> g, done |-> FALSE, p |-> None]
    /\ SphereIdle /\ SceneIdle /\ ScatterIdle /\ TraceIdle /\ FrameIdle

UniformInSphereSample ==
    /\ sampleCall.dist = "UniformInSphere"
    /\ ~sampleCall.done
    /\ sampleCall' = [sampleCall EXCEPT
            !.done = TRUE,
            !.p = UniformInSphere_sample(sampleCall.u, sampleCall.g)]
    /\ UNCHANGED <<sphereVars, sceneVars, scatterVars, traceVars, frameVars>>

UniformOnSphereSample ==
    /\ sampleCall.dist = "UniformOnSphere"
    /\ ~sampleCall.done
    /\ sampleCall' = [sampleCall EXCEPT
            !.done = TRUE,
            !.p = UniformOnSphere_sample(sampleCall.g)]
    /\ UNCHANGED <<sphereVars, sceneVars, scatterVars, traceVars, frameVars>>

SampleNext == UniformInSphereSample \/ UniformOnSphereSample

SampleSpec == SampleInit /\ [][SampleNext]_vars

\* C4: every vector sampled by UniformInSphere has magnitude <= 1.
C4_InSphereWithinUnitBall ==
    (sampleCall.done /\ sampleCall.dist = "UniformInSphere") =>
        RLe[mag_sq[sampleCall.p], R(1)]

-----------------------------------------------------------------------------
(* Material::scatter applied to bounded arguments and draws.               *)

MaterialSet ==
    { Lambertian(<<Rat(3, 10), Rat(2, 10), Rat(8, 10)>>),
      Metallic(<<Rat(8, 10), Rat(6, 10), Rat(2, 10)>>, R(0)),
      Metallic(<<Rat(8, 10), Rat(8, 10), Rat(8, 10)>>, Rat(1, 2)),
      Dielectric(Rat(3, 2)),
      Dielectric(R(1)) }

ScatterRaySet ==
    { Ray(V(0, 0, 2), V(0, 0, -1)),
      Ray(V(0, 0, 2), V(0, 0, -2)),
      Ray(V(0, -3, 5), V(0, 3, -4)),
      Ray(V(-1, 0, 1), V(1, 0, 0)),
      Ray(V(0, 0, 0), V(0, 0, 1)) }

\* Unit normals of the hits.
NormalSet == { V(0, 0, 1), V(0, 0, -1), V(0, -1, 0) }

ScatterInit ==
    /\ \E m \in MaterialSet, r \in ScatterRaySet, normal \in NormalSet :
        \E draws \in DrawsFor(m) :
            LET hit == Hit(Ray_at(r, R(1)), R(1), normal)
            IN  /\ CanScatter(m, r, hit, draws)
                /\ scatterCall = [m |-> m, ray |-> r, hit |-> hit, draws |-> draws,
                                  done |-> FALSE, result |-> None,
                                  refl |-> None, n |-> None, ratio |-> None]
    /\ SphereIdle /\ SceneIdle /\ SampleIdle /\ TraceIdle /\ FrameIdle

LambertianScatter ==
    /\ scatterCall.m.kind = "Lambertian"
    /\ ~scatterCall.done
    /\ scatterCall' = [scatterCall EXCEPT
            !.done = TRUE,
            !.result = Lambertian_scatter(scatterCall.m, scatterCall.ray,
                                          scatterCall.hit, scatterCall.draws.g)]
    /\ UNCHANGED <<sphereVars, sceneVars, sampleVars, traceVars, frameVars>>

\* refl records the perturbed direction the call computed.
MetallicScatter ==
    /\ scatterCall.m.kind = "Metallic"
    /\ ~scatterCall.done
    /\ scatterCall' = [scatterCall EXCEPT
            !.done = TRUE,
            !.result = Metallic_scatter(scatterCall.m, scatterCall.ray, scatterCall.hit,
                                        scatterCall.draws.u, scatterCall.draws.g),
            !.refl = Metallic_refl(scatterCall.m, scatterCall.ray, scatterCall.hit,
                                   scatterCall.draws.u, scatterCall.draws.g)]
    /\ UNCHANGED <<sphereVars, sceneVars, sampleVars, traceVars, frameVars>>

\* n and ratio record the normal and the ratio the call refracted with.
DielectricScatter ==
    /\ scatterCall.m.kind = "Dielectric"
    /\ ~scatterCall.done
    /\ scatterCall' = [scatterCall EXCEPT
            !.done = TRUE,
            !.result = Dielectric_scatter(scatterCall.m, scatterCall.ray,
                                          scatterCall.hit, scatterCall.draws.x),
            !.n = Dielectric_n(scatterCall.ray, scatterCall.hit),
            !.ratio = Dielectric_ratio(scatterCall.m, scatterCall.ray, scatterCall.hit)]
    /\ UNCHANGED <<sphereVars, sceneVars, sampleVars, traceVars, frameVars>>

ScatterNext == LambertianScatter \/ MetallicScatter \/ DielectricScatter

ScatterSpec == ScatterInit /\ [][ScatterNext]_vars

\* C5: the normal Dielectric::scatter refracts with opposes the incoming ray,
\* and the ratio is 1/ior for a ray entering from outside (the outward normal
\* opposes it) and ior for a ray leaving.
C5_RefractionNormalOpposesRay ==
    (scatterCall.done /\ scatterCall.m.kind = "Dielectric") =>
        LET nd == dot[scatterCall.hit.normal, scatterCall.ray.dir]
        IN  /\ RLe[dot[scatterCall.n, scatterCall.ray.dir], R(0)]
            /\ RLt[nd, R(0)] => scatterCall.ratio = RDiv[R(1), scatterCall.m.ior]
            /\ RLt[R(0), nd] => scatterCall.ratio = scatterCall.m.ior

\* C6: with ior = 1 and a non-grazing incidence, Dielectric::scatter returns
\* the normalized incoming direction, whatever the uniform draw.
C6_UnitIorPassesThrough ==
    (/\ scatterCall.done
     /\ scatterCall.m.kind = "Dielectric"
     /\ scatterCall.m.ior = R(1)
     /\ dot[scatterCall.hit.normal, scatterCall.ray.dir] # R(0)) =>
        scatterCall.result.ray.dir = normalized[scatterCall.ray.dir]

\* C7 as amended: Metallic::scatter returns Absorbed exactly when the
\* perturbed direction's dot product with the normal is < 0; otherwise, at 0
\* too, it returns Scattered from hit.p along that direction with the albedo.
C7_AbsorbedBelowZero ==
    (scatterCall.done /\ scatterCall.m.kind = "Metallic") =>
        LET d == dot[scatterCall.refl, scatterCall.hit.normal]
        IN  /\ (scatterCall.result = Absorbed) <=> RLt[d, R(0)]
            /\ scatterCall.result # Absorbed =>
                  scatterCall.result =
                      Scattered(Ray(scatterCall.hit.p, scatterCall.refl),
                                scatterCall.m.albedo)

\* A metallic scatter whose perturbed direction is perpendicular to the normal.
C7_Witness ==
    /\ scatterCall.done
    /\ scatterCall.m.kind = "Metallic"
    /\ dot[scatterCall.refl, scatterCall.hit.normal] = R(0)
    /\ scatterCall.result # Absorbed

\* C7 as stated: Metallic::scatter returns Absorbed exactly when the dot
\* product is <= 0, and otherwise Scattered from hit.p with the albedo.
C7_AbsorbedAtOrBelowZero ==
    (scatterCall.done /\ scatterCall.m.kind = "Metallic") =>
        LET d == dot[scatterCall.refl, scatterCall.hit.normal]
        IN  /\ (scatterCall.result = Absorbed) <=> RLe[d, R(0)]
            /\ scatterCall.result # Absorbed =>
                  /\ scatterCall.result.ray.origin = scatterCall.hit.p
                  /\ scatterCall.result.attenuation = scatterCall.m.albedo

-----------------------------------------------------------------------------
(* main.rs: the framebuffer and the render loop of main.  The loop is at    *)
(* pixel (fi, fj) with ss samples of it taken.  color_ray's results, their  *)
(* mean and its gamma correction are not computed here: the colour handed   *)
(* to Framebuffer::write is any colour of PixelColorSet.                    *)

\* The frame is fb_width x fb_height pixels (main: 400 x 225), each sampled
\* supersamples times (main: 32).
fb_width == 3
fb_height == 2
supersamples == 2

\* Values of rng.gen::<f32>(), in [0, 1).
JitterSet == { R(0), Rat(1, 2) }

\* Colours after gamma correction: black, and one with a channel above 1.
PixelColorSet == { V(0, 0, 0), <<Rat(1, 2), R(1), R(2)>> }

\* Framebuffer::new: vec![0; width * height * 3]
Framebuffer_new(width, height) == [k \in 1..(width * height * 3) |-> 0]

\* (255. * c) as u8: truncated toward zero and saturated to 0..255
Quantize(c) ==
    IF c[1] < 0 THEN 0
    ELSE IF (255 * c[1]) \div c[2] > 255 THEN 255
    ELSE (255 * c[1]) \div c[2]

\* The offset without the factor 3.
Framebuffer_write_NoStride(b, width, i, j, color) ==
    LET p == i * width + j
    IN  [b EXCEPT ![p + 1] = Quantize(color[1]),
                  ![p + 2] = Quantize(color[2]),
                  ![p + 3] = Quantize(color[3])]

\* Framebuffer::write; byte k of the buffer is element k + 1 of the sequence.
Framebuffer_write(b, width, i, j, color) ==
    LET p == (i * width + j) * 3
    IN  [b EXCEPT ![p + 1] = Quantize(color[1]),
                  ![p + 2] = Quantize(color[2]),
                  ![p + 3] = Quantize(color[3])]

\* let u = (j as f32 + rng.gen::<f32>()) / (fb_width - 1) as f32;
Screen_u(j, x) == RDiv[RAdd[R(j), x], R(fb_width - 1)]
\* let v = 1. - (i as f32 + rng.gen::<f32>()) / (fb_height - 1) as f32;
Screen_v(i, x) == RSub[R(1), RDiv[RAdd[R(i), x], R(fb_height - 1)]]

FrameInit ==
    /\ buf = Framebuffer_new(fb_width, fb_height)
    /\ fi = 0 /\ fj = 0 /\ ss = 0
    /\ camCall = None
    /\ written = <<>>
    /\ SphereIdle /\ SceneIdle /\ SampleIdle /\ ScatterIdle /\ TraceIdle

FrameOthersUnchanged ==
    UNCHANGED <<sphereVars, sceneVars, sampleVars, scatterVars, traceVars>>

\* One pass of the supersampling loop: camera.ray(u, v) is called.
FrameSample ==
    /\ fi < fb_height
    /\ ss < supersamples
    /\ \E xu \in JitterSet, xv \in JitterSet :
        camCall' = [i |-> fi, j |-> fj, u |-> Screen_u(fj, xu), v |-> Screen_v(fi, xv)]
    /\ ss' = ss + 1
    /\ UNCHANGED <<buf, fi, fj, written>>
    /\ FrameOthersUnchanged

\* The samples of pixel (fi, fj) are taken: fb.write(i, j, color), and the
\* loops go on to the next pixel of the row, or to the next row.
FrameWrite ==
    /\ fi < fb_height
    /\ ss = supersamples
    /\ \E color \in PixelColorSet :
        buf' = Framebuffer_write(buf, fb_width, fi, fj, color)
    /\ written' = Append(written, <<fi, fj>>)
    /\ ss' = 0
    /\ IF fj + 1 < fb_width
       THEN fj' = fj + 1 /\ fi' = fi
       ELSE fj' = 0 /\ fi' = fi + 1
    /\ UNCHANGED camCall
    /\ FrameOthersUnchanged

FrameNext == FrameSample \/ FrameWrite

FrameSpec == FrameInit /\ [][FrameNext]_vars

\* The pixels in row-major order, top row first.
RowMajor == [k \in 1..(fb_width * fb_height) |-> <<(k - 1) \div fb_width, (k - 1) % fb_width>>]

\* A step that writes pixel (fi, fj) changes no byte but those at offsets
\* (fi * fb_width + fj) * 3 .. + 2, which lie inside the buffer.
WriteTouchesOnlyItsPixel ==
    written' # written =>
        LET p == (fi * fb_width + fj) * 3
        IN  /\ fi < fb_height /\ fj < fb_width
            /\ p + 2 < Len(buf)
            /\ Len(buf') = Len(buf)
            /\ \A k \in 0..(Len(buf) - 1) : k \notin {p, p + 1, p + 2} => buf'[k + 1] = buf[k + 1]

ScanInOrder ==
    /\ Len(buf) = fb_width * fb_height * 3
    /\ Len(written) <= fb_width * fb_height
    /\ \A k \in 1..Len(written) : written[k] = RowMajor[k]
    /\ fi = fb_height => written = RowMajor

\* C8: the framebuffer holds exactly width*height*3 bytes; write(i, j, c)
\* changes only the three bytes at offsets (i*width + j)*3 .. + 2, inside the
\* buffer, and not its length; the scan writes every pixel exactly once, in
\* row-major order from the top row, and has written them all at its end.
C8_FramebufferRowMajor ==
    /\ []ScanInOrder
    /\ [][WriteTouchesOnlyItsPixel /\ (written' = written => buf' = buf)]_vars

\* The scan is complete and has left bytes other than 0 in the buffer.
C8_Witness ==
    /\ fi = fb_height
    /\ written = RowMajor
    /\ \E k \in 1..Len(buf) : buf[k] # 0
    /\ buf[Len(buf)] = 255

\* C10: camera.ray(u, v) is called only with u and v in [0, 1].
C10_ScreenCoordinatesInUnitSquare ==
    camCall # None =>
        /\ RLe[R(0), camCall.u] /\ RLe[camCall.u, R(1)]
        /\ RLe[R(0), camCall.v] /\ RLe[camCall.v, R(1)]

====
